---- MODULE Spec2Model ----
(***************************************************************************)
(* A model of monitor_dc_temp.py: the --forever mode of parse_cmdline      *)
(* starts `semaphores` tasks running get_nonblocking_weather on one        *)
(* asyncio event loop.  The tasks share self.count and the semaphore; each *)
(* task has its own locals start, warning, clearing and fired.             *)
(*                                                                         *)
(* Time is counted in clock units of 5 seconds.  A task runs without       *)
(* interruption between two suspension points (the await of client.get and *)
(* the await of asyncio.sleep), so each action of Spec is one such run;    *)
(* SpecSteps follows a run statement by statement instead.  SpecOnce is    *)
(* the --once mode: calls of get_blocking_weather on an object whose tasks *)
(* are never started.                                                      *)
(***************************************************************************)
EXTENDS Integers, FiniteSets, Sequences, TLC

\* ---------------------------------------------------------------- constants

\* self.semaphores: the number of permits and of tasks (default 2).
semaphores == 2

\* self.threshold (default 90).
threshold == 90

\* self.slo in clock units (the environment's SLO_TEMP; 4 units = 20 s).
slo == 4

\* asyncio.sleep(10) in clock units.
Sleep == 2

\* The divisor 10 of self.slo / 10 in the density floor, in clock units.
PollInterval == 2

\* timeout=5 of client.get in clock units: the response or the timeout
\* exception arrives within one unit.
Timeout == 1

\* self.count is a Python int and never overflows; the model saturates it at
\* MaxCount, which is above the density floor, so every comparison the code
\* makes keeps its result.
MaxCount == 6

\* HTTPStatus.OK
OK == 200

Tasks == 0 .. (semaphores - 1)

\* The payloads r.json() a response may carry: the temperature at the
\* threshold (clear) or one above (breaching), or a payload lacking
\* ['main']['temp'] or ['name'].
Temps == {threshold, threshold + 1}

Responses ==
    {[status |-> OK, hasTemp |-> TRUE, temp |-> t, hasName |-> TRUE] : t \in Temps}
    \cup {[status |-> OK, hasTemp |-> FALSE, temp |-> threshold, hasName |-> TRUE],
          [status |-> OK, hasTemp |-> TRUE, temp |-> threshold + 1, hasName |-> FALSE],
          [status |-> 500, hasTemp |-> FALSE, temp |-> threshold, hasName |-> FALSE]}

NoResponse == [status |-> 0, hasTemp |-> FALSE, temp |-> threshold, hasName |-> FALSE]

\* The answer to a request whose parameters the server rejects (lon = "fail").
BadRequest == [status |-> 400, hasTemp |-> FALSE, temp |-> threshold, hasName |-> FALSE]

\* What requests.get does in get_blocking_weather: it raises (a transport
\* error or the timeout), or it returns a response.
Polls ==
    [raised : {FALSE}, resp : Responses \cup {BadRequest}]
    \cup {[raised |-> TRUE, resp |-> NoResponse]}

\* The most calls of get_blocking_weather made on one object.
MaxCalls == 3

Min(a, b) == IF a < b THEN a ELSE b

\* -------------------------------------------------------------------- state

VARIABLES
    count,      \* self.count
    value,      \* semaphore._value: the permits not held
    pc,         \* per task: "new", "get" (awaiting client.get), "sleep", "done";
                \* and, where a run is followed statement by statement,
                \* "eval" (before counter()) and "branch" (after it)
    timer,      \* per task: units left of the sleep, or before the get times out
    r,          \* per task: the response held while the task sleeps
    exc,        \* per task: the exception that ended it ("" while it runs)
    elapsed,    \* per task: time.time() - start, saturated at slo + 1
    warning,    \* per task: local warning
    clearing,   \* per task: local clearing
    fired,      \* per task: local fired
    sent,       \* the notify() call of the last step: "none", "breach", "clear"
    evald,      \* the evaluation the last step made, if any: its task, the
                \* reading and the phase the task was in before it
    owed,       \* history, per task: it has sent a breach notice and no clear
                \* notice since
    breachSeen, \* history: a reading above the threshold has been evaluated
    sinceBreach,\* history: for how long the breach has persisted since the last
                \* breach notice: the time since that notice, saturated at slo,
                \* and Never when there was none or a reading at or below the
                \* threshold has been evaluated since
    gap,        \* history: sinceBreach as it was before the last step, when
                \* that step sent a breach notice; Never otherwise
    breaches,   \* history, per task: while it is warning, the readings above
                \* the threshold evaluated by any task since its window
                \* started, the one that started it included (saturated at
                \* MaxCount); 0 while it is not warning
    lastNotice, \* history: the last breach or clear notice sent, "none" before
                \* the first
    once,       \* history: the calls of get_blocking_weather so far, each with
                \* what requests.get did, the value returned and whether
                \* notify() was called
    running     \* the task the event loop is running: {w}, or {} when every
                \* task is suspended or ended

vars == <<count, value, pc, timer, r, exc, elapsed, warning, clearing, fired,
          sent, evald, owed, breachSeen, sinceBreach, gap, breaches, lastNotice,
          once, running>>

Never == slo + 1

\* A step that sends nothing and evaluates nothing: nothing is recorded.
Quiet ==
    /\ sent' = "none"
    /\ evald' = {}
    /\ gap' = Never
    /\ UNCHANGED <<owed, breachSeen, sinceBreach, breaches, lastNotice, once>>

TypeOK ==
    /\ count \in 0 .. MaxCount
    /\ value \in 0 .. semaphores
    /\ pc \in [Tasks -> {"new", "get", "sleep", "eval", "branch", "done"}]
    /\ timer \in [Tasks -> 0 .. Sleep]
    /\ r \in [Tasks -> Responses \cup {NoResponse}]
    /\ exc \in [Tasks -> {"", "TransportError", "KeyError"}]
    /\ elapsed \in [Tasks -> 0 .. slo + 1]
    /\ warning \in [Tasks -> BOOLEAN]
    /\ clearing \in [Tasks -> BOOLEAN]
    /\ fired \in [Tasks -> BOOLEAN]
    /\ sent \in {"none", "breach", "clear", "threshold"}
    /\ evald \subseteq [task : Tasks, temp : Temps, phase : {"nominal", "warning", "clearing"}]
    /\ owed \in [Tasks -> BOOLEAN]
    /\ breachSeen \in BOOLEAN
    /\ sinceBreach \in 0 .. slo \cup {Never}
    /\ gap \in 0 .. slo \cup {Never}
    /\ breaches \in [Tasks -> 0 .. MaxCount]
    /\ lastNotice \in {"none", "breach", "clear"}
    /\ once \in Seq([poll : Polls, ret : BOOLEAN, notified : BOOLEAN])
    /\ Len(once) <= MaxCalls
    /\ running \in {{}} \cup {{w} : w \in Tasks}

\* MonitorDCTemp.__init__ and parse_cmdline up to loop.run_forever(): the
\* counter is 0, the semaphore holds all its permits, the tasks are created
\* and none has run yet.
Init ==
    /\ count = 0
    /\ value = semaphores
    /\ pc = [w \in Tasks |-> "new"]
    /\ timer = [w \in Tasks |-> 0]
    /\ r = [w \in Tasks |-> NoResponse]
    /\ exc = [w \in Tasks |-> ""]
    /\ elapsed = [w \in Tasks |-> 0]
    /\ warning = [w \in Tasks |-> FALSE]
    /\ clearing = [w \in Tasks |-> FALSE]
    /\ fired = [w \in Tasks |-> FALSE]
    /\ sent = "none"
    /\ evald = {}
    /\ owed = [w \in Tasks |-> FALSE]
    /\ breachSeen = FALSE
    /\ sinceBreach = Never
    /\ gap = Never
    /\ breaches = [w \in Tasks |-> 0]
    /\ lastNotice = "none"
    /\ once = <<>>
    /\ running = {}

\* ------------------------------------------------------------ pure helpers

\* counter(): one more, or one fewer when subtract and positive.
Counter(c, subtract) ==
    IF ~subtract THEN Min(c + 1, MaxCount)
    ELSE IF c > 0 THEN c - 1 ELSE c

\* current_temp > self.threshold
Breaching(temp) == temp > threshold

\* time.time() - start > self.slo
WindowElapsed(e) == e > slo

\* A density floor that leaves out the number of tasks.
DensityMetOneTask(c) == PollInterval * (c + 1) > slo

\* self.count > (self.semaphores * (self.slo / 10)) - 1, the division being
\* Python's true division: multiplied out by the divisor.
DensityMet(c) == PollInterval * (c + 1) > semaphores * slo

\* semaphore.locked()
Locked(v) == v = 0

\* r.json()['main']['temp'] and r.json()['name'] both present
WellFormed(resp) == resp.hasTemp /\ resp.hasName

\* An acquire that takes no permit.
AcquireNoTake(v) == v

\* async with semaphore: acquire takes a permit, release returns it.
Acquire(v) == v - 1

Release(v) == v + 1

\* The awaits with counter() among those that hand control back.
SuspendsAtCounter(point) == point \in {"client.get", "asyncio.sleep", "counter"}

\* The awaits of get_nonblocking_weather that hand control back to the event
\* loop: the request and the sleep.  counter() is a coroutine with no await
\* in it, so awaiting it runs it to its end without a switch of task.
Suspends(point) == point \in {"client.get", "asyncio.sleep"}

\* The task running after task w has reached the await at point.
After(w, point) == IF Suspends(point) THEN {} ELSE {w}

\* ------------------------------------------------------------- the tracker

\* The phase of task w, from its locals.
Phase(w) ==
    IF warning[w] THEN "warning" ELSE IF clearing[w] THEN "clearing" ELSE "nominal"

\* The state one evaluation reads and writes: self.count and the locals of
\* the evaluating task.
Tracker(w) ==
    [count |-> count, elapsed |-> elapsed[w], warning |-> warning[w],
     clearing |-> clearing[w], fired |-> fired[w], sent |-> "none"]

\* The breach branch keeping the start of the window it comes back to from
\* clearing.
OnBreachKeepStart(s) ==
    LET c == Counter(s.count, FALSE) IN
    IF ~s.warning
    THEN [s EXCEPT !.warning = TRUE, !.clearing = FALSE, !.count = 1]
    ELSE IF s.warning /\ WindowElapsed(s.elapsed) /\ DensityMet(c)
    THEN [s EXCEPT !.sent = "breach", !.fired = TRUE, !.warning = FALSE, !.count = 0]
    ELSE [s EXCEPT !.count = c]

\* The breach branch with the count kept when the notice is sent.
OnBreachKeepCount(s) ==
    LET c == Counter(s.count, FALSE) IN
    IF ~s.warning
    THEN [s EXCEPT !.warning = TRUE, !.clearing = FALSE, !.elapsed = 0, !.count = 1]
    ELSE IF s.warning /\ WindowElapsed(s.elapsed) /\ DensityMet(c)
    THEN [s EXCEPT !.sent = "breach", !.fired = TRUE, !.warning = FALSE, !.count = c]
    ELSE [s EXCEPT !.count = c]

\* The branch of a reading above the threshold.
OnBreach(s) ==
    LET c == Counter(s.count, FALSE) IN
    IF ~s.warning
    THEN \* Initialize count warning
         [s EXCEPT !.warning = TRUE, !.clearing = FALSE, !.elapsed = 0, !.count = 1]
    ELSE IF s.warning /\ WindowElapsed(s.elapsed) /\ DensityMet(c)
    THEN \* Reset count now that SLO has been reached and send notice
         [s EXCEPT !.sent = "breach", !.fired = TRUE, !.warning = FALSE, !.count = 0]
    ELSE [s EXCEPT !.count = c]

\* The clear branch sending its notice whether or not the task has fired.
OnClearAlwaysNotify(s) ==
    LET c == Counter(s.count, FALSE) IN
    IF s.warning /\ s.clearing = FALSE
    THEN [s EXCEPT !.warning = FALSE, !.clearing = TRUE, !.elapsed = 0, !.count = 1]
    ELSE IF s.clearing /\ WindowElapsed(s.elapsed) /\ DensityMet(c)
    THEN [s EXCEPT !.sent = "clear", !.fired = FALSE, !.clearing = FALSE, !.count = 0]
    ELSE IF s.fired = FALSE /\ s.clearing = FALSE
    THEN [s EXCEPT !.count = 0]
    ELSE [s EXCEPT !.count = c]

\* The clear branch without its last elif: the count of a task that is
\* neither warning nor clearing is not put back to 0.
OnClearNoReset(s) ==
    LET c == Counter(s.count, FALSE) IN
    IF s.warning /\ s.clearing = FALSE
    THEN [s EXCEPT !.warning = FALSE, !.clearing = TRUE, !.elapsed = 0, !.count = 1]
    ELSE IF s.clearing /\ WindowElapsed(s.elapsed) /\ DensityMet(c)
    THEN [s EXCEPT !.sent = IF s.fired THEN "clear" ELSE "none",
                   !.fired = FALSE, !.clearing = FALSE, !.count = 0]
    ELSE [s EXCEPT !.count = c]

\* The branch of a reading at or below the threshold.
OnClear(s) ==
    LET c == Counter(s.count, FALSE) IN
    IF s.warning /\ s.clearing = FALSE
    THEN \* Initalize count clearing
         [s EXCEPT !.warning = FALSE, !.clearing = TRUE, !.elapsed = 0, !.count = 1]
    ELSE IF s.clearing /\ WindowElapsed(s.elapsed) /\ DensityMet(c)
    THEN \* Reset count now that SLO has been cleared and send notice
         [s EXCEPT !.sent = IF s.fired THEN "clear" ELSE "none",
                   !.fired = FALSE, !.clearing = FALSE, !.count = 0]
    ELSE IF s.fired = FALSE /\ s.clearing = FALSE
    THEN [s EXCEPT !.count = 0]
    ELSE [s EXCEPT !.count = c]

\* The check for the threshold of one parsed reading.
Evaluate(s, temp) == IF Breaching(temp) THEN OnBreach(s) ELSE OnClear(s)

\* ------------------------------------------------------------- the actions

Started == \A w \in Tasks : pc[w] # "new"

\* The first run of task w, up to its first await: the locals are set, a
\* permit is taken and the request is issued.  The loop runs the tasks in
\* the order of their creation, before any response is delivered.
TaskStart(w) ==
    /\ pc[w] = "new"
    /\ \A v \in Tasks : v < w => pc[v] # "new"
    /\ ~Locked(value)
    /\ value' = Acquire(value)
    /\ pc' = [pc EXCEPT ![w] = "get"]
    /\ timer' = [timer EXCEPT ![w] = Timeout]
    /\ elapsed' = [elapsed EXCEPT ![w] = 0]
    /\ warning' = [warning EXCEPT ![w] = FALSE]
    /\ clearing' = [clearing EXCEPT ![w] = FALSE]
    /\ fired' = [fired EXCEPT ![w] = FALSE]
    /\ running' = After(w, "client.get")
    /\ Quiet
    /\ UNCHANGED <<count, r, exc>>

\* An exception that ends the task with its permit still taken.
RaiseKeepPermit(w, e) ==
    /\ pc' = [pc EXCEPT ![w] = "done"]
    /\ exc' = [exc EXCEPT ![w] = e]
    /\ timer' = [timer EXCEPT ![w] = 0]
    /\ r' = [r EXCEPT ![w] = NoResponse]
    /\ running' = {}
    /\ Quiet
    /\ UNCHANGED <<count, value, elapsed, warning, clearing, fired>>

\* An exception leaves the async with block, which returns the permit, and
\* ends the task: nothing in get_nonblocking_weather catches it.
Raise(w, e) ==
    /\ value' = Release(value)
    /\ pc' = [pc EXCEPT ![w] = "done"]
    /\ exc' = [exc EXCEPT ![w] = e]
    /\ timer' = [timer EXCEPT ![w] = 0]
    /\ r' = [r EXCEPT ![w] = NoResponse]
    /\ running' = {}
    /\ Quiet
    /\ UNCHANGED <<count, elapsed, warning, clearing, fired>>

\* The end of one pass of the while loop and the start of the next: the
\* permit is returned and taken again, and the next request is issued.
NextPoll(w) ==
    /\ value' = Acquire(Release(value))
    /\ pc' = [pc EXCEPT ![w] = "get"]
    /\ timer' = [timer EXCEPT ![w] = Timeout]
    /\ r' = [r EXCEPT ![w] = NoResponse]
    /\ running' = After(w, "client.get")
    /\ UNCHANGED exc

\* What the history variables keep of the evaluation by task w of the reading
\* temp, which left the tracker as s.
Record(w, temp, s) ==
    /\ sent' = s.sent
    /\ evald' = {[task |-> w, temp |-> temp, phase |-> Phase(w)]}
    /\ owed' = [owed EXCEPT ![w] = IF s.sent = "breach" THEN TRUE
                                   ELSE IF s.sent = "clear" THEN FALSE
                                   ELSE @]
    /\ breachSeen' = (breachSeen \/ Breaching(temp))
    /\ sinceBreach' = IF s.sent = "breach" THEN 0
                      ELSE IF Breaching(temp) THEN sinceBreach
                      ELSE Never
    /\ gap' = IF s.sent = "breach" THEN sinceBreach ELSE Never
    /\ breaches' =
          [v \in Tasks |->
              LET b == IF Breaching(temp) THEN 1 ELSE 0 IN
              IF v = w
              THEN IF ~s.warning THEN 0
                   ELSE IF ~warning[w] THEN 1
                   ELSE Min(breaches[w] + b, MaxCount)
              ELSE IF warning[v] THEN Min(breaches[v] + b, MaxCount)
                   ELSE 0]
    /\ lastNotice' = IF s.sent = "none" THEN lastNotice ELSE s.sent
    /\ UNCHANGED once

\* The rest of the pass once the response resp is in hand and the cooldown,
\* if any, is over.
Handle(w, resp) ==
    IF resp.status = OK
    THEN IF WellFormed(resp)
         THEN LET s == Evaluate(Tracker(w), resp.temp) IN
              /\ count' = s.count
              /\ elapsed' = [elapsed EXCEPT ![w] = s.elapsed]
              /\ warning' = [warning EXCEPT ![w] = s.warning]
              /\ clearing' = [clearing EXCEPT ![w] = s.clearing]
              /\ fired' = [fired EXCEPT ![w] = s.fired]
              /\ Record(w, resp.temp, s)
              /\ NextPoll(w)
         ELSE Raise(w, "KeyError")
    ELSE \* Bad response
         /\ Quiet
         /\ UNCHANGED <<count, elapsed, warning, clearing, fired>>
         /\ NextPoll(w)

\* client.get returns with the sleep placed after the async with block: the
\* permit is returned before the cooldown.
GetReturnsReleaseFirst(w, resp) ==
    /\ Started
    /\ pc[w] = "get"
    /\ IF Locked(value)
       THEN /\ pc' = [pc EXCEPT ![w] = "sleep"]
            /\ timer' = [timer EXCEPT ![w] = Sleep]
            /\ r' = [r EXCEPT ![w] = resp]
            /\ value' = Release(value)
            /\ running' = After(w, "asyncio.sleep")
            /\ Quiet
            /\ UNCHANGED <<count, exc, elapsed, warning, clearing, fired>>
       ELSE Handle(w, resp)

\* client.get returns resp to task w.  When the semaphore is locked at that
\* instant the task sleeps, holding resp and its permit.
GetReturns(w, resp) ==
    /\ Started
    /\ pc[w] = "get"
    /\ IF Locked(value)
       THEN /\ pc' = [pc EXCEPT ![w] = "sleep"]
            /\ timer' = [timer EXCEPT ![w] = Sleep]
            /\ r' = [r EXCEPT ![w] = resp]
            /\ running' = After(w, "asyncio.sleep")
            /\ Quiet
            /\ UNCHANGED <<count, value, exc, elapsed, warning, clearing, fired>>
       ELSE Handle(w, resp)

\* client.get raises in task w (a transport error or the timeout).
GetRaises(w) ==
    /\ Started
    /\ pc[w] = "get"
    /\ Raise(w, "TransportError")

\* asyncio.sleep(10) is over for task w.
Wake(w) ==
    /\ pc[w] = "sleep"
    /\ timer[w] = 0
    /\ Handle(w, r[w])

\* One clock unit passes: no sleep is overslept and no request outlives its
\* timeout.
Tick ==
    /\ Started
    /\ \E w \in Tasks : pc[w] # "done"
    /\ \A w \in Tasks : pc[w] \in {"get", "sleep"} => timer[w] > 0
    /\ timer' = [w \in Tasks |-> IF pc[w] \in {"get", "sleep"} THEN timer[w] - 1 ELSE timer[w]]
    /\ elapsed' = [w \in Tasks |-> IF pc[w] # "done" THEN Min(elapsed[w] + 1, slo + 1) ELSE elapsed[w]]
    /\ sent' = "none"
    /\ evald' = {}
    /\ owed' = owed
    /\ sinceBreach' = IF sinceBreach = Never THEN Never ELSE Min(sinceBreach + 1, slo)
    /\ gap' = Never
    /\ UNCHANGED <<count, value, pc, r, exc, warning, clearing, fired, breachSeen,
                   breaches, lastNotice, once, running>>

Next ==
    \/ \E w \in Tasks : TaskStart(w)
    \/ \E w \in Tasks, resp \in Responses : GetReturns(w, resp)
    \/ \E w \in Tasks : GetRaises(w)
    \/ \E w \in Tasks : Wake(w)
    \/ Tick

Spec == Init /\ [][Next]_vars

\* ------------------------------------------- two evaluations, in either order

\* The counter, the locals of every task and the notices sent so far, as two
\* evaluations in a row read and write them.
Trackers ==
    [count |-> count, elapsed |-> elapsed, warning |-> warning,
     clearing |-> clearing, fired |-> fired, breach |-> 0, clear |-> 0]

\* The evaluation by task w of the reading temp, from g.
EvaluateIn(g, w, temp) ==
    LET s == Evaluate([count |-> g.count, elapsed |-> g.elapsed[w],
                       warning |-> g.warning[w], clearing |-> g.clearing[w],
                       fired |-> g.fired[w], sent |-> "none"], temp)
    IN [count |-> s.count,
        elapsed |-> [g.elapsed EXCEPT ![w] = s.elapsed],
        warning |-> [g.warning EXCEPT ![w] = s.warning],
        clearing |-> [g.clearing EXCEPT ![w] = s.clearing],
        fired |-> [g.fired EXCEPT ![w] = s.fired],
        breach |-> g.breach + (IF s.sent = "breach" THEN 1 ELSE 0),
        clear |-> g.clear + (IF s.sent = "clear" THEN 1 ELSE 0)]

\* Task w's sleep is over and the response it holds is one the threshold
\* check is run on.
Ready(w) == pc[w] = "sleep" /\ timer[w] = 0 /\ r[w].status = OK /\ WellFormed(r[w])

\* Task v evaluates the reading it holds, then task w evaluates its own.
InOrder(v, w) == EvaluateIn(EvaluateIn(Trackers, v, r[v].temp), w, r[w].temp)

\* ------------------------------------------- a run, statement by statement

\* The if and elif of the breach branch, on a tracker whose count counter()
\* has already incremented.
BreachBranch(s) ==
    IF ~s.warning
    THEN [s EXCEPT !.warning = TRUE, !.clearing = FALSE, !.elapsed = 0, !.count = 1]
    ELSE IF s.warning /\ WindowElapsed(s.elapsed) /\ DensityMet(s.count)
    THEN [s EXCEPT !.sent = "breach", !.fired = TRUE, !.warning = FALSE, !.count = 0]
    ELSE s

\* The if and elifs of the clear branch, likewise.
ClearBranch(s) ==
    IF s.warning /\ s.clearing = FALSE
    THEN [s EXCEPT !.warning = FALSE, !.clearing = TRUE, !.elapsed = 0, !.count = 1]
    ELSE IF s.clearing /\ WindowElapsed(s.elapsed) /\ DensityMet(s.count)
    THEN [s EXCEPT !.sent = IF s.fired THEN "clear" ELSE "none",
                   !.fired = FALSE, !.clearing = FALSE, !.count = 0]
    ELSE IF s.fired = FALSE /\ s.clearing = FALSE
    THEN [s EXCEPT !.count = 0]
    ELSE s

\* The event loop runs one task at a time: task w goes on when it is the one
\* running, or when none is and w is ready.
Runs(w) == running = {w} \/ running = {}

\* Task w, resumed with the response resp and past the cooldown, checks the
\* status and parses the payload, up to the check for the threshold.
Parse(w, resp) ==
    IF resp.status = OK
    THEN IF WellFormed(resp)
         THEN /\ pc' = [pc EXCEPT ![w] = "eval"]
              /\ r' = [r EXCEPT ![w] = resp]
              /\ timer' = [timer EXCEPT ![w] = 0]
              /\ running' = {w}
              /\ Quiet
              /\ UNCHANGED <<count, value, exc, elapsed, warning, clearing, fired>>
         ELSE Raise(w, "KeyError")
    ELSE \* Bad response
         /\ Quiet
         /\ UNCHANGED <<count, elapsed, warning, clearing, fired>>
         /\ NextPoll(w)

\* The loop resumes task w, suspended at client.get, with the response resp.
StepResume(w, resp) ==
    /\ Started
    /\ running = {}
    /\ pc[w] = "get"
    /\ IF Locked(value)
       THEN /\ pc' = [pc EXCEPT ![w] = "sleep"]
            /\ timer' = [timer EXCEPT ![w] = Sleep]
            /\ r' = [r EXCEPT ![w] = resp]
            /\ running' = After(w, "asyncio.sleep")
            /\ Quiet
            /\ UNCHANGED <<count, value, exc, elapsed, warning, clearing, fired>>
       ELSE Parse(w, resp)

\* The loop resumes task w at the end of its sleep.
StepWake(w) ==
    /\ running = {}
    /\ pc[w] = "sleep"
    /\ timer[w] = 0
    /\ Parse(w, r[w])

\* Task w classifies its reading and awaits counter().
StepCounter(w) ==
    /\ pc[w] = "eval"
    /\ Runs(w)
    /\ count' = Counter(count, FALSE)
    /\ pc' = [pc EXCEPT ![w] = "branch"]
    /\ running' = After(w, "counter")
    /\ Quiet
    /\ UNCHANGED <<value, timer, r, exc, elapsed, warning, clearing, fired>>

\* Task w takes the if or elif of its branch, ends the pass and issues its
\* next request.
StepBranch(w) ==
    /\ pc[w] = "branch"
    /\ Runs(w)
    /\ LET s == IF Breaching(r[w].temp) THEN BreachBranch(Tracker(w))
                ELSE ClearBranch(Tracker(w))
       IN /\ count' = s.count
          /\ elapsed' = [elapsed EXCEPT ![w] = s.elapsed]
          /\ warning' = [warning EXCEPT ![w] = s.warning]
          /\ clearing' = [clearing EXCEPT ![w] = s.clearing]
          /\ fired' = [fired EXCEPT ![w] = s.fired]
          /\ Record(w, r[w].temp, s)
          /\ NextPoll(w)

\* The tasks of --forever followed statement by statement: the loop starts
\* or resumes a task only when none is running, and the clock is read in
\* units far longer than a run.
NextSteps ==
    \/ \E w \in Tasks : running = {} /\ TaskStart(w)
    \/ \E w \in Tasks, resp \in Responses : StepResume(w, resp)
    \/ \E w \in Tasks : running = {} /\ GetRaises(w)
    \/ \E w \in Tasks : StepWake(w)
    \/ \E w \in Tasks : StepCounter(w)
    \/ \E w \in Tasks : StepBranch(w)
    \/ running = {} /\ Tick

SpecSteps == Init /\ [][NextSteps]_vars

\* --------------------------------------------------------- the one-shot mode

\* get_blocking_weather with the threshold itself taken as reached.
BlockingWeatherAtThreshold(c, p) ==
    IF p.raised \/ p.resp.status # OK \/ ~WellFormed(p.resp)
    THEN [count |-> c, ret |-> FALSE, notified |-> FALSE]
    ELSE [count |-> c, ret |-> TRUE, notified |-> p.resp.temp >= threshold]

\* get_blocking_weather on an object whose self.count is c, when requests.get
\* does p: any exception of the try block (raised by requests.get, by the
\* check of the status or by the lookup of the reading or the name) returns
\* False; otherwise the threshold is checked and True is returned.
BlockingWeather(c, p) ==
    IF p.raised \/ p.resp.status # OK \/ ~WellFormed(p.resp)
    THEN [count |-> c, ret |-> FALSE, notified |-> FALSE]
    ELSE [count |-> c, ret |-> TRUE, notified |-> p.resp.temp > threshold]

\* One call of get_blocking_weather, as --once and the test make it, on an
\* object none of whose tasks has been started.
GetBlockingWeather(p) ==
    LET b == BlockingWeather(count, p) IN
    /\ \A w \in Tasks : pc[w] = "new"
    /\ Len(once) < MaxCalls
    /\ count' = b.count
    /\ once' = Append(once, [poll |-> p, ret |-> b.ret, notified |-> b.notified])
    /\ sent' = IF b.notified THEN "threshold" ELSE "none"
    /\ evald' = {}
    /\ gap' = Never
    /\ UNCHANGED <<value, pc, timer, r, exc, elapsed, warning, clearing, fired,
                   owed, breachSeen, sinceBreach, breaches, lastNotice, running>>

NextOnce == \E p \in Polls : GetBlockingWeather(p)

SpecOnce == Init /\ [][NextOnce]_vars

\* ------------------------------------------------- steady streams of samples

\* The well-formed successful responses, by the class of their reading.
Samples == {resp \in Responses : resp.status = OK /\ WellFormed(resp)}

BreachSamples == {resp \in Samples : Breaching(resp.temp)}

ClearSamples == {resp \in Samples : ~Breaching(resp.temp)}

\* The task on whose reading the last step ran the threshold check.
Evaluator(w) == \E e \in evald : e.task = w

\* Every poll succeeds with a reading above the threshold.
NextBreach ==
    \/ \E w \in Tasks : TaskStart(w)
    \/ \E w \in Tasks, resp \in BreachSamples : GetReturns(w, resp)
    \/ \E w \in Tasks : Wake(w)
    \/ Tick

\* The clock advances, the loop runs every task that can run, and every
\* request is answered.
FairBreach ==
    /\ WF_vars(Tick)
    /\ \A w \in Tasks : WF_vars(TaskStart(w))
    /\ \A w \in Tasks : WF_vars(Wake(w))
    /\ \A w \in Tasks : WF_vars(\E resp \in BreachSamples : GetReturns(w, resp))

SpecBreach == Init /\ [][NextBreach]_vars /\ FairBreach

\* Every poll succeeds with a well-formed reading, above the threshold or
\* not.
NextSteady ==
    \/ \E w \in Tasks : TaskStart(w)
    \/ \E w \in Tasks, resp \in Samples : GetReturns(w, resp)
    \/ \E w \in Tasks : Wake(w)
    \/ Tick

FairSteady ==
    /\ WF_vars(Tick)
    /\ \A w \in Tasks : WF_vars(TaskStart(w))
    /\ \A w \in Tasks : WF_vars(Wake(w))
    /\ \A w \in Tasks : WF_vars(\E resp \in Samples : GetReturns(w, resp))

SpecSteady == Init /\ [][NextSteady]_vars /\ FairSteady

\* A breach notice has been sent by a task that has not sent its clear notice.
AlertActive == \E w \in Tasks : fired[w]

\* The last step evaluated a reading above the threshold.
BreachEvaluated == \E e \in evald : Breaching(e.temp)

\* The last step evaluated a reading at or below the threshold.
ClearEvaluated == \E e \in evald : ~Breaching(e.temp)

\* ------------------------------------------------------------------ claims

\* C1 (hysteresis): as long as no reading above the threshold has been
\* evaluated, no notice has been sent, no task is warning or clearing, none
\* has fired, and the count is 0 after every evaluation.
C1_Hysteresis ==
    ~breachSeen =>
        /\ sent = "none"
        /\ count = 0
        /\ \A w \in Tasks : ~warning[w] /\ ~clearing[w] /\ ~fired[w]

\* C1's case: a reading at the threshold has just been evaluated and no
\* reading above it ever was.
C1_Witness ==
    /\ ~breachSeen
    /\ \E e \in evald : e.temp = threshold

\* C2 (debounce window): with every reading above the threshold, a breach
\* notice is sent only by a task whose window has lasted at least slo, and
\* at least slo after the notice before it, if there was one; and a breach
\* notice is eventually sent.
C2_Debounce ==
    /\ [][\A w \in Tasks : (sent' = "breach" /\ Evaluator(w)') =>
              (warning[w] /\ elapsed[w] >= slo /\ sinceBreach >= slo)]_vars
    /\ <>(sent = "breach")

\* C2's case: the first breach notice has just been sent.
C2_Witness == sent = "breach" /\ gap = Never

\* C3 (clear notice on recovery): once a breach notice is outstanding and a
\* clear reading has been evaluated, a clear notice is eventually sent unless
\* a reading above the threshold is evaluated again.
C3_ClearOnRecovery ==
    (AlertActive /\ ClearEvaluated) ~> (sent = "clear" \/ BreachEvaluated)

\* C4 (re-notification): while the breach persists after a breach notice, the
\* next breach notice, of whichever task, comes at least slo after it, and
\* it does come.
C4_Renotify ==
    /\ [][sent' = "breach" => sinceBreach >= slo]_vars
    /\ (sinceBreach = 1) ~> (sent = "breach" \/ ClearEvaluated)

\* C4's case: a breach notice has just been sent, slo or more after the
\* breach notice before it, with only readings above the threshold evaluated
\* in between.
C4_Witness == sent = "breach" /\ gap = slo

\* C5 (no redundant clear notice): a clear notice is sent only by a task
\* that has sent a breach notice and no clear notice since, and it settles
\* that debt; a task whose clearing window completes (window elapsed, density
\* floor met) without having fired sends nothing and goes back to nominal
\* with the count at 0.
C5_ClearOnlyIfFired ==
    [][\A w \in Tasks : (Evaluator(w)' /\ ClearEvaluated') =>
          /\ sent' = "clear" => (owed[w] /\ fired[w] /\ ~fired'[w])
          /\ (/\ clearing[w]
              /\ WindowElapsed(elapsed[w])
              /\ DensityMet(Counter(count, FALSE))
              /\ ~fired[w])
             => (sent' = "none" /\ Phase(w)' = "nominal" /\ count' = 0)]_vars

\* C5's case: a clearing window has just completed in a task that had not
\* fired: nothing was sent and the task is nominal again.
C5_Witness ==
    \E e \in evald :
        /\ e.phase = "clearing" /\ ~Breaching(e.temp)
        /\ Phase(e.task) = "nominal" /\ ~owed[e.task]
        /\ sent = "none" /\ count = 0

\* C6 (a single dip does not clear): a reading at or below the threshold
\* moves a warning task to clearing, and a reading above it moves a clearing
\* task back to warning; each step starts a fresh window (elapsed 0, count 1)
\* and sends nothing.
C6_DipDoesNotClear ==
    [][\A w \in Tasks : Evaluator(w)' =>
          /\ (warning[w] /\ ClearEvaluated') =>
                (Phase(w)' = "clearing" /\ elapsed'[w] = 0 /\ count' = 1 /\ sent' = "none")
          /\ (clearing[w] /\ BreachEvaluated') =>
                (Phase(w)' = "warning" /\ elapsed'[w] = 0 /\ count' = 1 /\ sent' = "none")]_vars

\* C6's case: a task has just come back from clearing to warning on a
\* reading above the threshold, and its window is a fresh one.
C6_Witness ==
    \E e \in evald :
        /\ e.phase = "clearing" /\ Breaching(e.temp)
        /\ Phase(e.task) = "warning" /\ elapsed[e.task] = 0 /\ count = 1

\* The requests issued and not yet answered.
Outstanding == Cardinality({w \in Tasks : pc[w] = "get"})

\* The tasks inside the async with block.
Holders == {w \in Tasks : pc[w] \in {"get", "sleep"}}

\* C7 (permit bound): the permits taken from the semaphore are exactly those
\* of the tasks inside the async with block, never more than semaphores; so
\* every outstanding request is that of a task holding a permit and at most
\* semaphores requests are outstanding.
C7_PermitBound ==
    /\ value \in 0 .. semaphores
    /\ semaphores - value = Cardinality(Holders)
    /\ Outstanding <= semaphores - value

\* C7's case: every permit is taken and as many requests are outstanding,
\* one of them issued by a task that has just finished a pass of its loop.
C7_Witness == value = 0 /\ Outstanding = semaphores /\ evald # {}

\* C8 (AlertState invariant): when no task is warning or clearing the count
\* is 0.
C8_NominalCountZero ==
    (\A w \in Tasks : Phase(w) = "nominal") => count = 0

\* C9 (poll errors are non-fatal): no task is ended by a failure of its
\* poll.
C9_PollErrorsNonFatal == \A w \in Tasks : exc[w] # "TransportError"

\* C10 (malformed sample is a no-op): no task is ended by a payload that
\* lacks the reading or the name; it goes on to its next poll.
C10_MalformedNoOp == \A w \in Tasks : exc[w] # "KeyError"

\* C11 (one-shot mode): every call of get_blocking_weather returned True
\* exactly when its poll succeeded (no exception, status OK, reading and
\* name present) and called notify() exactly when, besides, the reading was
\* strictly above the threshold; the counter is still 0 and no task-local
\* phase or window has been touched.
C11_OneShot ==
    /\ \A i \in 1 .. Len(once) :
          LET p == once[i].poll
              succeeded == /\ ~p.raised
                           /\ p.resp.status = 200
                           /\ p.resp.hasTemp
                           /\ p.resp.hasName
          IN /\ once[i].ret = succeeded
             /\ once[i].notified = (succeeded /\ p.resp.temp > threshold)
    /\ sent = "threshold" <=> (once # <<>> /\ once[Len(once)].notified)
    /\ count = 0
    /\ \A w \in Tasks : Phase(w) = "nominal" /\ ~fired[w] /\ elapsed[w] = 0

\* C11's case: a poll that succeeded with the reading at the threshold (no
\* notice), one that succeeded above it (a notice) and one that failed.
C11_Witness ==
    \E i, j, k \in 1 .. Len(once) :
        /\ once[i].ret /\ once[i].notified
        /\ once[j].ret /\ ~once[j].notified /\ once[j].poll.resp.temp = threshold
        /\ ~once[k].ret /\ sent = "none"

\* C12 (breach trigger): a reading above the threshold evaluated by a warning
\* task first increments the count, and sends a breach notice exactly when
\* the window has lasted at least slo and the incremented count exceeds
\* semaphores * (slo / PollInterval) - 1; so it does at exactly slo.
C12_BreachTrigger ==
    [][\A w \in Tasks : (Evaluator(w)' /\ BreachEvaluated' /\ warning[w]) =>
          /\ sent' = "breach" <=>
                (/\ elapsed[w] >= slo
                 /\ PollInterval * (Counter(count, FALSE) + 1) > semaphores * slo)
          /\ sent' # "breach" => count' = Counter(count, FALSE)]_vars

\* C13 (state after a breach notice): the evaluation that sends a breach
\* notice leaves its task warning and fired, with a fresh window (elapsed 0)
\* and the count at 0; so a reading at or below the threshold evaluated next
\* by that task, fired and not clearing, takes it to clearing with a fresh
\* window and the count at 1.
C13_AfterBreachNotice ==
    [][\A w \in Tasks :
          /\ (Evaluator(w)' /\ sent' = "breach") =>
                (Phase(w)' = "warning" /\ fired'[w] /\ elapsed'[w] = 0 /\ count' = 0)
          /\ (Evaluator(w)' /\ ClearEvaluated' /\ fired[w] /\ ~clearing[w]) =>
                (Phase(w)' = "clearing" /\ elapsed'[w] = 0 /\ count' = 1)]_vars

\* C14 (breach density): when a task sends a breach notice, the incremented
\* count is the number of readings above the threshold evaluated since its
\* window started, and that number exceeds the density floor; and while a
\* task's warning window is in progress, another task's evaluation of a
\* reading at or below the threshold leaves the count alone and its
\* evaluation of a reading above it never lowers the count.
C14_BreachDensity ==
    [][\A w \in Tasks : Evaluator(w)' =>
          /\ sent' = "breach" =>
                LET n == Min(breaches[w] + 1, MaxCount) IN
                /\ Counter(count, FALSE) = n
                /\ PollInterval * (n + 1) > semaphores * slo
          /\ (\E v \in Tasks \ {w} : warning[v]) =>
                (/\ ClearEvaluated' => count' = count
                 /\ (BreachEvaluated' /\ sent' # "breach") => count' >= count)]_vars

\* C15 (single AlertState): the running tasks agree at all times on the
\* phase, on the start of the window and on whether a breach notice is
\* outstanding, so each evaluation starts from the state the evaluation
\* before it left, whichever task made it.
C15_SingleAlertState ==
    \A v, w \in Tasks :
        (pc[v] \in {"get", "sleep"} /\ pc[w] \in {"get", "sleep"}) =>
            /\ Phase(v) = Phase(w)
            /\ elapsed[v] = elapsed[w]
            /\ fired[v] = fired[w]

\* A task is between the start and the end of the evaluation of a reading.
MidEvaluation(w) == pc[w] \in {"eval", "branch"}

\* C16 (run to completion): while a task is evaluating a reading, every step
\* is a step of that task: no other task moves or changes its phase, window
\* or fired flag, and the count is written by that task only; and whenever
\* no task is running, every task is at client.get, at the sleep, not yet
\* started or ended.
C16_RunToCompletion ==
    /\ [][\A w \in Tasks : MidEvaluation(w) =>
              /\ pc'[w] # pc[w]
              /\ \A v \in Tasks \ {w} :
                    /\ pc'[v] = pc[v]
                    /\ warning'[v] = warning[v]
                    /\ clearing'[v] = clearing[v]
                    /\ fired'[v] = fired[v]
                    /\ elapsed'[v] = elapsed[v]
              /\ (count' # count) => (Evaluator(w)' \/ pc'[w] = "branch")]_vars
    /\ [](running = {} => \A w \in Tasks : pc[w] \in {"new", "get", "sleep", "done"})
    /\ [](\A v, w \in Tasks : (MidEvaluation(v) /\ MidEvaluation(w)) => v = w)

\* C16's case: a task is between counter() and its branch while the other
\* task's sleep is over, so the loop has a task it could run instead.
C16_Witness ==
    \E w, v \in Tasks :
        /\ w # v
        /\ pc[w] = "branch" /\ count > 0
        /\ pc[v] = "sleep" /\ timer[v] = 0

\* C17 (interleaving insensitivity): when two tasks hold readings that are
\* ready to be evaluated at the same instant, evaluating them in either
\* order sends the same notices and leaves the same count and the same
\* phases.
C17_OrderInsensitive ==
    \A v, w \in Tasks :
        (v # w /\ Ready(v) /\ Ready(w)) =>
            LET a == InOrder(v, w)
                b == InOrder(w, v)
            IN /\ a.breach = b.breach
               /\ a.clear = b.clear
               /\ a.count = b.count
               /\ a.warning = b.warning
               /\ a.clearing = b.clearing

\* C18 (no duplicate clear notice): a clear notice is sent only when the
\* last notice sent, by whichever task, was a breach notice; so between two
\* clear notices there is a breach notice.
C18_NoDuplicateClear ==
    [][sent' = "clear" => lastNotice = "breach"]_vars

\* C19 (saturation cooldown ordering): a task whose request is answered (any
\* status) while no permit is free starts the cooldown, keeping its permit,
\* and goes on only when the cooldown is over; a task whose request is
\* answered while a permit is free goes on at once; and the permits taken
\* are always exactly those of the tasks at a request or in the cooldown, so
\* a task that has ended, however it ended, holds none.
C19_CooldownOrdering ==
    /\ [][\A w \in Tasks :
              /\ (pc[w] = "get" /\ pc'[w] = "sleep") =>
                    (value = 0 /\ value' = 0 /\ timer'[w] = Sleep)
              /\ (pc[w] = "get" /\ value = 0 /\ exc'[w] # "TransportError") =>
                    \/ pc'[w] = "sleep"
                    \/ pc'[w] = "get" /\ timer'[w] <= timer[w] /\ ~Evaluator(w)'
              /\ (pc[w] = "get" /\ value # 0) => pc'[w] # "sleep"
              /\ (pc[w] = "sleep" /\ pc'[w] # "sleep") => timer[w] = 0]_vars
    /\ [](value = semaphores - Cardinality({w \in Tasks : pc[w] \in {"get", "sleep"}}))

\* C19's case: a task has just started the cooldown on a non-success answer,
\* with every permit taken.
C19_Witness ==
    \E w \in Tasks :
        /\ pc[w] = "sleep" /\ timer[w] = Sleep
        /\ r[w].status = 500
        /\ value = 0

\* The tasks that have ended.
Ended == {w \in Tasks : pc[w] = "done"}

\* C20 (saturation in --forever mode): the free permits are exactly those of
\* the tasks not yet started or ended, so no acquire ever waits; while no
\* task has ended, every answered request is followed by the cooldown and a
\* task issues a request only at its start or at the end of a cooldown; once
\* a task has ended a permit is always free and no task starts a cooldown.
C20_ForeverSaturation ==
    /\ [](value = Cardinality({w \in Tasks : pc[w] \in {"new", "done"}}))
    /\ [](Ended # {} => value > 0)
    /\ [][\A w \in Tasks :
              /\ (Ended = {} /\ pc[w] = "get" /\ exc'[w] = "") =>
                    \/ pc'[w] = "sleep"
                    \/ pc'[w] = "get" /\ timer'[w] <= timer[w] /\ ~Evaluator(w)'
              /\ (Ended = {} /\ Evaluator(w)') => (pc[w] = "sleep" /\ timer[w] = 0)
              /\ (Ended # {} /\ pc[w] = "get") => pc'[w] # "sleep"]_vars

\* C20's case: with the other task ended, a task has just evaluated a second
\* reading at the very instant its window started, so with no cooldown
\* between the two.
C20_Witness ==
    \E w \in Tasks, e \in evald :
        /\ Ended = Tasks \ {w}
        /\ e.task = w /\ e.phase = "warning"
        /\ warning[w] /\ elapsed[w] = 0 /\ count = 2

====
